---- MODULE Spec2Model ----
(***************************************************************************)
(* Model of CuttingPlane_Transformation._apply_to                          *)
(* (src/pyomo/gdp/plugins/cuttingplane.py).                                *)
(*                                                                         *)
(* Numbers.  Objective values are Python floats; they are modelled in      *)
(* fixed point with four decimals (9.0001 is 90001), so epsilon = 0.001    *)
(* is 10.  float("inf") is the value PosInf.  Variable values are small    *)
(* integers.                                                               *)
(*                                                                         *)
(* Names.  Component names are sequences of characters, so that            *)
(* str.startswith and the string concatenations of the code are computed   *)
(* and not assumed.                                                        *)
(*                                                                         *)
(* Two names of _apply_to are resolved outside the file:                   *)
(*  - instance_bigm (lines 103, 112, 129) is assigned nowhere in the       *)
(*    file; bigmBound says whether the global namespace built by the star  *)
(*    imports of lines 3-9 binds it.  When it does, it denotes the model   *)
(*    transformed in place on line 37; when it does not, line 103 raises   *)
(*    NameError.                                                           *)
(*  - lines 48-49 deactivate every objective *data* object of              *)
(*    instance_rChull, lines 86-87 then ask for an active objective        *)
(*    *component*.  For a scalar objective the component is its own data   *)
(*    and the lookup is empty (StopIteration); for an indexed objective    *)
(*    the container keeps its own flag.  objLayout says which.             *)
(***************************************************************************)
EXTENDS Integers, Sequences, FiniteSets, TLC

VARIABLES
    pc,             \* position in _apply_to
    integral,       \* per instance: whether it keeps its integrality restrictions
    objLayout,      \* "scalar" | "indexed": kind of the model's Objective component
    bigmBound,      \* whether the name instance_bigm resolves
    chullLayout,    \* how instance_rChull carries the variable x of instance_rBigm
    bigmLayout,     \* how instance_bigm carries the variable x of instance_rBigm
    improving,      \* line 42
    iteration,      \* line 43
    prev_obj,       \* line 44
    results,        \* line 61: status returned by the last weak-relaxation solve
    rBigm_objVal,   \* line 66
    rBigmVal,       \* values of the variables of instance_rBigm
    x_star,         \* line 73: dict key string -> value
    obj_expr,       \* line 72: terms (sep_var[index] - soln_value)**2
    chullObj,       \* the objective of instance_rChull: flags and expression
    chullVal,       \* values of the variables of instance_rChull
    bigmCuts,       \* constraints added to instance_bigm, by component name
    rBigmCuts,      \* constraints added to instance_rBigm, by component name
    sepStatus,      \* status returned by the last separation solve (discarded, line 92)
    objHist,        \* history: the objective values read on line 66, oldest first
    weakSolves,     \* history: number of opt.solve(instance_rBigm) calls
    sepSolves,      \* history: number of opt.solve(instance_rChull) calls
    mipSolves,      \* history: number of mip_opt.solve calls
    mipModel,       \* history: the cuts of the model handed to the MIP solver
    error           \* exception that ended the run, or "none"

\* the loop state of _apply_to
cutVars == <<pc, integral, objLayout, bigmBound, chullLayout, bigmLayout, improving, iteration, prev_obj, results,
          rBigm_objVal, rBigmVal, x_star, obj_expr, chullObj, chullVal,
          bigmCuts, rBigmCuts, sepStatus, objHist, weakSolves, sepSolves,
          mipSolves, mipModel, error>>

\* src/pyomo/util/subsystems.py: a context manager and the components it
\* is given
VARIABLES
    kind,                   \* the class of the manager
    phase,                  \* "constructed", "inside" the with-block, "exited"
    fixed,                  \* var.fixed, by variable
    active,                 \* con.active, by constraint
    value,                  \* var.value, by variable
    _vars_to_fix,           \* list of variables (line 72)
    _cons_to_deactivate,    \* list of constraints (line 73)
    _comps_to_set,          \* list of components (line 74)
    _var_was_fixed,         \* list of (var, fixed), empty while None (line 75)
    _con_was_active,        \* list of (con, active), empty while None (line 76)
    _comp_original_value,   \* list of (comp, value), empty while None (line 77)
    n_scenario,             \* ParamSweeper.n_scenario
    input_values,           \* ParamSweeper.input_values: variable -> list
    output_values,          \* ParamSweeper.output_values: variable -> list
    _ip,                    \* ParamSweeper._ip
    ret,                    \* what the last call of __next__ returned or raised
    entry,                  \* history: flags and values when __enter__ was called
    yielded,                \* history: scenarios returned since the last StopIteration
    restarted               \* history: a StopIteration has been raised

subVars == <<kind, phase, fixed, active, value, _vars_to_fix,
             _cons_to_deactivate, _comps_to_set, _var_was_fixed,
             _con_was_active, _comp_original_value, n_scenario, input_values,
             output_values, _ip, ret, entry, yielded, restarted>>

\* the instance whose cuts are compared with its feasible region: its two
\* disjuncts, and the sampled points of its feasible region and of its strong
\* relaxation
VARIABLES region

vars == <<cutVars, subVars, region>>

-----------------------------------------------------------------------------
(* Floats *)

\* variant of line 44: prev_obj starts at 0.0
PosInfAsZero == [inf |-> FALSE, val |-> 0]

PosInf == [inf |-> TRUE, val |-> 0]

Num(n) == [inf |-> FALSE, val |-> n]

\* a - b for a in floats-with-inf and b finite
FSub(a, b) == IF a.inf THEN PosInf ELSE Num(a.val - b.val)

\* a > e for e finite
FGt(a, e) == IF a.inf THEN TRUE ELSE a.val > e.val

epsilon == 10

-----------------------------------------------------------------------------
(* Strings *)

StartsWith(s, p) == Len(s) >= Len(p) /\ SubSeq(s, 1, Len(p)) = p

IndicatorPrefix ==
    <<"_", "g", "d", "p", "_", "r", "e", "l", "a", "x", "_", "b", "i", "g", "m", ".">>

\* str(index); the integer indices 1 and 2 are carried as "1" and "2", the
\* index of a scalar variable as "None"
IndexStr(i) == IF i = "None" THEN <<"N", "o", "n", "e">> ELSE <<i>>

\* var_name + "[" + str(index) + "]"
XStarKey(var_name, index) == var_name \o <<"[">> \o IndexStr(index) \o <<"]">>

\* variant of lines 112 and 114: the iteration number is left out of the name
CutNameFixed(it) == <<"_cut", 0>>

\* "_cut" + str(iteration), kept as the pair of its two parts
CutName(it) == <<"_cut", it>>

-----------------------------------------------------------------------------
(* The model instance: variables of the relaxations *)

XName == <<"x">>

IndName == IndicatorPrefix \o <<"d">>

\* instance_rBigm.component_objects(Var, active=True), as names
WeakVarNames == {XName, IndName}

\* the index set of each variable of instance_rBigm (and instance_bigm)
WeakIndex(var_name) == IF var_name = XName THEN {"1", "2"} ELSE {"None"}

\* the layouts of a copy of the model: it carries x as instance_rBigm does,
\* it has no component of that name, or its x lacks the index 2
Layouts == {"same", "no_var", "no_index"}

\* the names getattr(instance_rChull, var_name) finds (line 79, line 104)
ChullVarNames == IF chullLayout = "no_var" THEN {} ELSE {XName}

\* the index set of the variable of that name in instance_rChull
ChullIndex(var_name) ==
    IF var_name = XName
    THEN (IF chullLayout = "no_index" THEN {"1"} ELSE {"1", "2"})
    ELSE {"None"}

\* the names getattr(instance_bigm, var_name) finds (line 103)
BigmVarNames == IF bigmLayout = "no_var" THEN {} ELSE {XName}

\* the index set of the variable of that name in instance_bigm
BigmIndex(var_name) ==
    IF var_name = XName
    THEN (IF bigmLayout = "no_index" THEN {"1"} ELSE {"1", "2"})
    ELSE {"None"}

WeakVarIdx == UNION {{<<n, i>> : i \in WeakIndex(n)} : n \in WeakVarNames}

\* variant of lines 77 and 101: the name is compared with the prefix for
\* equality
NotIndicatorExact(var_name) == var_name # IndicatorPrefix

\* line 77 / line 101: "we don't want the indicator variables"
NotIndicator(var_name) == ~StartsWith(var_name, IndicatorPrefix)

-----------------------------------------------------------------------------
(* What the solvers may return *)

Statuses == {"optimal", "infeasible"}

ObjVals == {100000, 95000, 90010, 90001, 90000}

Assign(a, b, d) ==
    (<<XName, "1">> :> a) @@ (<<XName, "2">> :> b) @@ (<<IndName, "None">> :> d)

\* solutions of the weak relaxation
WeakSolutions == {Assign(0, 1, 0), Assign(1, 1, 1)}

Point(a, b) == (<<XName, "1">> :> a) @@ (<<XName, "2">> :> b)

\* solutions of the separation problem
HullSolutions == {Point(0, 0), Point(1, 1)}

-----------------------------------------------------------------------------
(* Pure parts of the loop body *)

\* the (name, index) pairs visited by the loop of lines 74-83
CandidateVarIdx ==
    UNION {{<<n, i>> : i \in WeakIndex(n)} : n \in {m \in WeakVarNames : NotIndicator(m)}}

\* lines 73-82: x_star, keyed by var_name + "[" + str(index) + "]"
BuildXStar(vals) ==
    [k \in {XStarKey(ni[1], ni[2]) : ni \in CandidateVarIdx} |->
        vals[CHOOSE ni \in CandidateVarIdx : XStarKey(ni[1], ni[2]) = k]]

\* lines 72, 83: obj_expr, one term (sep_var[index] - soln_value)**2 per pair,
\* kept as pair -> soln_value
BuildObjExpr(vals) == [ni \in CandidateVarIdx |-> vals[ni]]

\* the pairs of the loop of lines 74-83 for which getattr(instance_rChull,
\* var_name) of line 79 and sep_var[index] of line 83 succeed
ChullResolves(ni) == ni[1] \in ChullVarNames /\ ni[2] \in ChullIndex(ni[1])

\* variant of lines 79 and 83: a variable that is missing is passed over
ChullLookupSkips == TRUE

\* lines 79, 83: every lookup in instance_rChull succeeds
ChullLookupOk == \A ni \in CandidateVarIdx : ChullResolves(ni)

\* the exception of line 79 (no such attribute) or line 83 (no such index)
ChullLookupError ==
    IF \E ni \in CandidateVarIdx : ni[1] \notin ChullVarNames
    THEN "AttributeError" ELSE "KeyError"

\* x_star as far as it was filled when the lookup failed: line 82 stores the
\* value before line 83 looks the index up in sep_var, and the index that is
\* missing is the last one of the variable
PartialXStar(vals) ==
    LET done == {ni \in CandidateVarIdx : ni[1] \in ChullVarNames}
    IN  [k \in {XStarKey(ni[1], ni[2]) : ni \in done} |->
            vals[CHOOSE ni \in done : XStarKey(ni[1], ni[2]) = k]]

\* obj_expr as far as it was built when the lookup failed
PartialObjExpr(vals) == [ni \in {m \in CandidateVarIdx : ChullResolves(m)} |-> vals[ni]]

\* the (name, index) pairs visited by the loop of lines 98-110
CutVarIdx ==
    UNION {{<<n, i>> : i \in ChullIndex(n)} : n \in {m \in WeakVarNames : NotIndicator(m)}}

\* variant of lines 107-108: the difference is taken the other way round
NormVecValReversed(xhat_val, xs, ni) == xs[XStarKey(ni[1], ni[2])] - xhat_val

\* lines 106-108: norm_vec_val = xhat_val - x_star[key]
NormVecVal(xhat_val, xs, ni) == xhat_val - xs[XStarKey(ni[1], ni[2])]

\* variant of lines 103 and 109: a variable that is missing is passed over
BigmLookupSkips == TRUE

\* lines 103, 109: getattr(instance_bigm, var_name) and bigm_var[index] succeed
BigmLookupOk ==
    \A ni \in CutVarIdx : ni[1] \in BigmVarNames /\ ni[2] \in BigmIndex(ni[1])

\* the exception of line 103 (no such attribute) or line 109 (no such index)
BigmLookupError ==
    IF \E ni \in CutVarIdx : ni[1] \notin BigmVarNames
    THEN "AttributeError" ELSE "KeyError"

\* variant of line 109: the normal vector of the bigm cut is reversed
CutExprBigmReversed(xs, hv) ==
    [ni \in CutVarIdx |-> [coef |-> 0 - NormVecVal(hv[ni], xs, ni), xhat |-> hv[ni]]]

\* line 109: cutexpr_bigm, one term norm_vec_val*(bigm_var[index] - xhat_val)
\* per pair, kept as pair -> (coefficient, xhat_val)
CutExprBigm(xs, hv) ==
    [ni \in CutVarIdx |-> [coef |-> NormVecVal(hv[ni], xs, ni), xhat |-> hv[ni]]]

\* variant of line 110: the normal vector of the rBigm cut is reversed
CutExprRBigmReversed(xs, hv) ==
    [ni \in CutVarIdx |-> [coef |-> 0 - NormVecVal(hv[ni], xs, ni), xhat |-> hv[ni]]]

\* line 110: cutexpr_rBigm
CutExprRBigm(xs, hv) ==
    [ni \in CutVarIdx |-> [coef |-> NormVecVal(hv[ni], xs, ni), xhat |-> hv[ni]]]

\* variant of line 118: an infinite prev_obj counts as no improvement
ImprovingFiniteOnly(prev, cur) == ~prev.inf /\ prev.val - cur.val > epsilon

\* variant of line 118: ">=" for ">"
ImprovingOrEqual(prev, cur) == prev.inf \/ prev.val - cur.val >= epsilon

\* line 118: prev_obj - rBigm_objVal > epsilon
Improving(prev, cur) == FGt(FSub(prev, cur), Num(epsilon))

\* variant of line 59: a further pass starts at the separation problem
LoopTestSkipsWeakSolve(imp) == IF imp THEN "separation" ELSE "mip"

\* line 59: while (improving)
LoopTest(imp) == IF imp THEN "solve_weak" ELSE "mip"

\* variant of lines 112-115: the new constraint takes the place of the old ones
AddComponentReplace(cuts, name, c) == (name :> c)

RECURSIVE SumOver(_, _)
\* the sum of f over the finite set S
SumOver(f, S) ==
    IF S = {} THEN 0
    ELSE LET e == CHOOSE x \in S : TRUE IN f[e] + SumOver(f, S \ {e})

\* the left-hand side of Constraint(expr=cutexpr >= 0) at a point: the sum of
\* norm_vec_val*(var[index] - xhat_val) of lines 109-110
CutLhs(cut, point) ==
    SumOver([ni \in DOMAIN cut |-> cut[ni].coef * (point[ni] - cut[ni].xhat)], DOMAIN cut)

\* add_component(name, c) on the constraints of an instance
AddComponent(cuts, name, c) == cuts @@ (name :> c)

-----------------------------------------------------------------------------
(* The run *)

\* no context manager exists
SubsystemsIdle ==
    /\ kind = "none"
    /\ phase = "none"
    /\ fixed = <<>>
    /\ active = <<>>
    /\ value = <<>>
    /\ _vars_to_fix = <<>>
    /\ _cons_to_deactivate = <<>>
    /\ _comps_to_set = <<>>
    /\ _var_was_fixed = <<>>
    /\ _con_was_active = <<>>
    /\ _comp_original_value = <<>>
    /\ n_scenario = 0
    /\ input_values = <<>>
    /\ output_values = <<>>
    /\ _ip = -1
    /\ ret = [kind |-> "none", inputs |-> <<>>, outputs |-> <<>>]
    /\ entry = <<>>
    /\ yielded = <<>>
    /\ restarted = FALSE

Init ==
    /\ pc = "start"
    /\ integral = <<>>
    /\ objLayout \in {"scalar", "indexed"}
    /\ bigmBound \in BOOLEAN
    /\ chullLayout \in Layouts
    /\ bigmLayout \in Layouts
    /\ improving = FALSE
    /\ iteration = 0
    /\ prev_obj = Num(0)
    /\ results = "none"
    /\ rBigm_objVal = Num(0)
    /\ rBigmVal = [ni \in WeakVarIdx |-> 0]
    /\ x_star = <<>>
    /\ obj_expr = <<>>
    /\ chullObj = [component_active |-> TRUE, data_active |-> TRUE,
                   is_separation |-> FALSE, terms |-> <<>>]
    /\ chullVal = [ni \in CutVarIdx |-> 0]
    /\ bigmCuts = <<>>
    /\ rBigmCuts = <<>>
    /\ sepStatus = "none"
    /\ objHist = <<>>
    /\ weakSolves = 0
    /\ sepSolves = 0
    /\ mipSolves = 0
    /\ mipModel = <<>>
    /\ error = "none"
    /\ SubsystemsIdle
    /\ region = <<>>

\* lines 29-49: build the relaxations (instance_rChull and instance_rBigm are
\* integrality-relaxed copies, the bigM model itself is not relaxed),
\* initialise the loop state, deactivate the objective data of instance_rChull
Setup ==
    /\ UNCHANGED <<subVars, region>>
    /\ pc = "start"
    /\ improving' = TRUE
    /\ iteration' = 0
    /\ prev_obj' = PosInf
    /\ chullObj' = [chullObj EXCEPT !.data_active = FALSE,
                                     !.component_active = (objLayout = "indexed")]
    /\ integral' = [instance_bigm |-> TRUE, instance_rBigm |-> FALSE,
                    instance_rChull |-> FALSE]
    /\ pc' = "solve_weak"
    /\ UNCHANGED <<objLayout, bigmBound, chullLayout, bigmLayout, results, rBigm_objVal, rBigmVal, x_star,
                   obj_expr, chullVal, bigmCuts, rBigmCuts, sepStatus, objHist,
                   weakSolves, sepSolves, mipSolves, mipModel, error>>

\* lines 59-83: the loop test has passed; solve instance_rBigm, read the
\* objective value, build x_star and obj_expr.  The returned status is bound
\* to results and never read.
SolveWeak ==
    /\ UNCHANGED <<subVars, region>>
    /\ pc = "solve_weak"
    /\ ChullLookupOk
    /\ \E st \in Statuses, ov \in ObjVals, vals \in WeakSolutions :
          /\ results' = st
          /\ rBigmVal' = vals
          /\ rBigm_objVal' = Num(ov)
          /\ objHist' = Append(objHist, ov)
          /\ x_star' = BuildXStar(vals)
          /\ obj_expr' = BuildObjExpr(vals)
    /\ weakSolves' = weakSolves + 1
    /\ pc' = "separation"
    /\ UNCHANGED <<integral, objLayout, bigmBound, chullLayout, bigmLayout, improving, iteration, prev_obj, chullObj,
                   chullVal, bigmCuts, rBigmCuts, sepStatus, sepSolves, mipSolves,
                   mipModel, error>>

\* lines 59-83 when instance_rChull lacks the variable or an index of it: the
\* solve and the objective read happen, then line 79 or line 83 raises
SolveWeakLookupError ==
    /\ UNCHANGED <<subVars, region>>
    /\ pc = "solve_weak"
    /\ ~ChullLookupOk
    /\ \E st \in Statuses, ov \in ObjVals, vals \in WeakSolutions :
          /\ results' = st
          /\ rBigmVal' = vals
          /\ rBigm_objVal' = Num(ov)
          /\ objHist' = Append(objHist, ov)
          /\ x_star' = PartialXStar(vals)
          /\ obj_expr' = PartialObjExpr(vals)
    /\ weakSolves' = weakSolves + 1
    /\ error' = ChullLookupError
    /\ pc' = "failed"
    /\ UNCHANGED <<integral, objLayout, bigmBound, chullLayout, bigmLayout, improving,
                   iteration, prev_obj, chullObj, chullVal, bigmCuts, rBigmCuts,
                   sepStatus, sepSolves, mipSolves, mipModel>>

\* lines 86-87 when instance_rChull has no active objective component:
\* next() on the empty generator raises StopIteration
SeparationNoObjective ==
    /\ UNCHANGED <<subVars, region>>
    /\ pc = "separation"
    /\ ~chullObj.component_active
    /\ error' = "StopIteration"
    /\ pc' = "failed"
    /\ UNCHANGED <<integral, objLayout, bigmBound, chullLayout, bigmLayout, improving, iteration, prev_obj, results,
                   rBigm_objVal, rBigmVal, x_star, obj_expr, chullObj, chullVal,
                   bigmCuts, rBigmCuts, sepStatus, objHist, weakSolves, sepSolves,
                   mipSolves, mipModel>>

\* lines 86-92: put obj_expr on the objective found, solve instance_rChull.
\* set_value changes the expression only; the status returned is discarded.
SolveSeparation ==
    /\ UNCHANGED <<subVars, region>>
    /\ pc = "separation"
    /\ chullObj.component_active
    /\ chullObj' = [chullObj EXCEPT !.terms = obj_expr, !.is_separation = TRUE]
    /\ \E st \in Statuses, hv \in HullSolutions :
          /\ sepStatus' = st
          /\ chullVal' = hv
    /\ sepSolves' = sepSolves + 1
    /\ pc' = "add_cut"
    /\ UNCHANGED <<integral, objLayout, bigmBound, chullLayout, bigmLayout, improving, iteration, prev_obj, results,
                   rBigm_objVal, rBigmVal, x_star, obj_expr, bigmCuts, rBigmCuts,
                   objHist, weakSolves, mipSolves, mipModel, error>>

\* line 103 when instance_bigm is not bound: NameError, before any
\* add_component
AddCutNameError ==
    /\ UNCHANGED <<subVars, region>>
    /\ pc = "add_cut"
    /\ ~bigmBound
    /\ error' = "NameError"
    /\ pc' = "failed"
    /\ UNCHANGED <<integral, objLayout, bigmBound, chullLayout, bigmLayout, improving, iteration, prev_obj, results,
                   rBigm_objVal, rBigmVal, x_star, obj_expr, chullObj, chullVal,
                   bigmCuts, rBigmCuts, sepStatus, objHist, weakSolves, sepSolves,
                   mipSolves, mipModel>>

\* lines 103, 109 when instance_bigm lacks the variable or an index of it:
\* the exception comes inside the loop, before the add_component calls
AddCutLookupError ==
    /\ UNCHANGED <<subVars, region>>
    /\ pc = "add_cut"
    /\ bigmBound
    /\ ~BigmLookupOk
    /\ error' = BigmLookupError
    /\ pc' = "failed"
    /\ UNCHANGED <<integral, objLayout, bigmBound, chullLayout, bigmLayout, improving,
                   iteration, prev_obj, results, rBigm_objVal, rBigmVal, x_star,
                   obj_expr, chullObj, chullVal, bigmCuts, rBigmCuts, sepStatus,
                   objHist, weakSolves, sepSolves, mipSolves, mipModel>>

\* lines 94-115: build both cut expressions, add them as "_cut<iteration>"
AddCut ==
    /\ UNCHANGED <<subVars, region>>
    /\ pc = "add_cut"
    /\ bigmBound
    /\ BigmLookupOk
    /\ bigmCuts' = AddComponent(bigmCuts, CutName(iteration), CutExprBigm(x_star, chullVal))
    /\ rBigmCuts' = AddComponent(rBigmCuts, CutName(iteration), CutExprRBigm(x_star, chullVal))
    /\ pc' = "check"
    /\ UNCHANGED <<integral, objLayout, bigmBound, chullLayout, bigmLayout, improving, iteration, prev_obj, results,
                   rBigm_objVal, rBigmVal, x_star, obj_expr, chullObj, chullVal,
                   sepStatus, objHist, weakSolves, sepSolves, mipSolves, mipModel,
                   error>>

\* lines 117-124 and the loop test of line 59
CheckConvergence ==
    /\ UNCHANGED <<subVars, region>>
    /\ pc = "check"
    /\ improving' = Improving(prev_obj, rBigm_objVal)
    /\ prev_obj' = rBigm_objVal
    /\ iteration' = iteration + 1
    /\ pc' = LoopTest(improving')
    /\ UNCHANGED <<integral, objLayout, bigmBound, chullLayout, bigmLayout, results, rBigm_objVal, rBigmVal, x_star,
                   obj_expr, chullObj, chullVal, bigmCuts, rBigmCuts, sepStatus,
                   objHist, weakSolves, sepSolves, mipSolves, mipModel, error>>

\* lines 126-131: solve instance_bigm with the MIP solver, then the breakpoint
SolveMIP ==
    /\ UNCHANGED <<subVars, region>>
    /\ pc = "mip"
    /\ mipSolves' = mipSolves + 1
    /\ mipModel' = [instance |-> "instance_bigm", integral |-> integral.instance_bigm,
                    cuts |-> bigmCuts]
    /\ pc' = "done"
    /\ UNCHANGED <<integral, objLayout, bigmBound, chullLayout, bigmLayout, improving, iteration, prev_obj, results,
                   rBigm_objVal, rBigmVal, x_star, obj_expr, chullObj, chullVal,
                   bigmCuts, rBigmCuts, sepStatus, objHist, weakSolves, sepSolves,
                   error>>

Next ==
    \/ Setup
    \/ SolveWeak
    \/ SolveWeakLookupError
    \/ SeparationNoObjective
    \/ SolveSeparation
    \/ AddCutNameError
    \/ AddCutLookupError
    \/ AddCut
    \/ CheckConvergence
    \/ SolveMIP

Spec == Init /\ [][Next]_vars

-----------------------------------------------------------------------------
(* Shared vocabulary of the properties *)

\* the convergence check of the latest iteration has run and the next weak
\* solve has not: iteration counts the checks, objHist the weak solves
CheckDone == iteration >= 1 /\ iteration = Len(objHist)

CutNames(n) == {<<"_cut", k>> : k \in 0 .. (n - 1)}

\* the cut has no non-zero coefficient
ZeroCut(cut) == \A ni \in DOMAIN cut : cut[ni].coef = 0

-----------------------------------------------------------------------------
(* C1 *)

C1Seq == <<100000, 95000, 90001, 90000>>

C1Decisions ==
    /\ (CheckDone /\ objHist = SubSeq(C1Seq, 1, 2)) => improving
    /\ (CheckDone /\ objHist = SubSeq(C1Seq, 1, 3)) => improving
    /\ (CheckDone /\ objHist = C1Seq) => ~improving

-----------------------------------------------------------------------------
(* C2 *)

\* the first candidate equals its projection in every registered variable
FirstCandidateInHull ==
    /\ weakSolves = 1
    /\ sepSolves = 1
    /\ \A ni \in CutVarIdx : chullVal[ni] = rBigmVal[ni]

-----------------------------------------------------------------------------
(* C3 *)

\* C3 as claimed: a weak-relaxation solve or a separation solve that does not
\* end optimal stops the run: the iteration it belongs to performs no further
\* solve and adds no cut, no later iteration starts, and the MIP solver is
\* not invoked.
C3_SolveFailureAborts ==
    /\ results = "infeasible" =>
          /\ sepSolves < weakSolves
          /\ CutName(weakSolves - 1) \notin DOMAIN rBigmCuts
          /\ CutName(weakSolves - 1) \notin DOMAIN bigmCuts
          /\ mipSolves = 0
    /\ sepStatus = "infeasible" =>
          /\ weakSolves = sepSolves
          /\ CutName(sepSolves - 1) \notin DOMAIN rBigmCuts
          /\ CutName(sepSolves - 1) \notin DOMAIN bigmCuts
          /\ mipSolves = 0

-----------------------------------------------------------------------------
(* C4 *)

\* what the stopping rule has to answer after the n-th weak solve
MustContinue(n) == n = 1 \/ objHist[n - 1] - objHist[n] > 10

-----------------------------------------------------------------------------
(* C5 *)

-----------------------------------------------------------------------------
(* C6 *)

\* C6 as claimed: whenever the continuous solver has been invoked on
\* instance_rChull, the instance has exactly one active objective, and it is
\* the separation objective of the current candidate.
C6_OneActiveObjectiveAtSeparation ==
    sepSolves > 0 =>
        /\ chullObj.data_active
        /\ chullObj.is_separation
        /\ chullObj.terms = obj_expr

-----------------------------------------------------------------------------
(* C7 *)

\* what holds of the MIP solve whenever it happens: it comes after a check
\* that answered stop, and it is given instance_bigm, with its integrality
\* restrictions, holding the cuts _cut0 .. _cut(n-1) of the n iterations made
MipSolveAfterStop ==
    /\ mipSolves <= 1
    /\ mipSolves = 1 =>
          /\ pc = "done"
          /\ CheckDone
          /\ ~improving
          /\ mipModel.instance = "instance_bigm"
          /\ mipModel.integral
          /\ DOMAIN mipModel.cuts = CutNames(iteration)
          /\ Cardinality(DOMAIN mipModel.cuts) = weakSolves
          /\ \A n \in DOMAIN mipModel.cuts : mipModel.cuts[n] = rBigmCuts[n]

\* C7 as claimed: the MIP solver is invoked exactly once per run, only after
\* a convergence check has answered stop, on the persisted weak relaxation
\* with its integrality restrictions and every cut of the run: a run that has
\* ended has invoked it once.
C7_FinalDiscreteSolve ==
    /\ MipSolveAfterStop
    /\ pc \in {"done", "failed"} => mipSolves = 1

-----------------------------------------------------------------------------
(* C8 *)

Kept(old, new) == \A n \in DOMAIN old : n \in DOMAIN new /\ new[n] = old[n]

-----------------------------------------------------------------------------
(* C9 *)

HasReservedPrefix(name) ==
    /\ Len(name) >= 16
    /\ \A k \in 1 .. 16 : name[k] = IndicatorPrefix[k]

\* (name, index) of the weak-relaxation variables that are not indicators
Registered == {ni \in WeakVarIdx : ~HasReservedPrefix(ni[1])}

-----------------------------------------------------------------------------
(* C10 *)

\* d = x_H - x_B over the registered variables
Direction == [ni \in Registered |-> chullVal[ni] - rBigmVal[ni]]

SeparatesCandidate(cut) ==
    /\ \A ni \in Registered : cut[ni].coef = Direction[ni]
    /\ CutLhs(cut, chullVal) = 0
    /\ CutLhs(cut, rBigmVal) =
          0 - SumOver([ni \in Registered |-> Direction[ni] * Direction[ni]], Registered)
    /\ (\E ni \in Registered : Direction[ni] # 0) => CutLhs(cut, rBigmVal) < 0

-----------------------------------------------------------------------------
(* C12 *)

\* the hull relaxation is reached after at most two cuts: the weak solve
\* that sees three cuts improves on the one that sees two by no more than
\* epsilon
HullReachedAfterTwoCuts == Len(objHist) >= 4 => objHist[3] - objHist[4] <= epsilon

\* the parts of C12 that hold of every run: under HullReachedAfterTwoCuts the
\* loop makes at most four iterations, and it is left for the MIP solve only
\* after an improvement that is not greater than epsilon
BoundedIterations ==
    /\ HullReachedAfterTwoCuts => (iteration <= 4 /\ weakSolves <= 4)
    /\ pc \in {"mip", "done"} =>
          /\ iteration >= 2
          /\ objHist[iteration - 1] - objHist[iteration] <= epsilon

\* C12 as claimed: on an instance whose hull relaxation is reached after at
\* most two cuts the loop ends within a fixed number of iterations and comes
\* to the final MIP solve; the loop ends only on an improvement that is not
\* greater than epsilon.
C12_BoundedTermination ==
    /\ BoundedIterations
    /\ (chullLayout = "same" /\ bigmLayout = "same") => pc # "failed"

-----------------------------------------------------------------------------
(* C13 *)

\* C13: when instance_rChull or instance_bigm lacks the variable, or an index
\* of the variable, of a registered variable of instance_rBigm, the run ends
\* with an error in the first iteration, before a cut is in either instance,
\* and no solve comes after the error.
C13_FailFastOnBrokenCorrespondence ==
    /\ chullLayout # "same" =>
          /\ DOMAIN bigmCuts = {} /\ DOMAIN rBigmCuts = {}
          /\ weakSolves <= 1 /\ sepSolves = 0 /\ mipSolves = 0
          /\ weakSolves = 1 =>
                (pc = "failed" /\ error \in {"AttributeError", "KeyError"})
    /\ bigmLayout # "same" =>
          /\ DOMAIN bigmCuts = {} /\ DOMAIN rBigmCuts = {}
          /\ weakSolves <= 1 /\ sepSolves <= 1 /\ mipSolves = 0
          /\ pc \notin {"start", "solve_weak", "separation", "add_cut"} =>
                (pc = "failed" /\ error # "none")

\* instance_bigm lacks an index of x: the run has ended in the loop of lines
\* 98-110 of the first iteration
C13_Witness ==
    /\ bigmLayout = "no_index"
    /\ chullLayout = "same"
    /\ pc = "failed"
    /\ error = "KeyError"
    /\ sepSolves = 1

-----------------------------------------------------------------------------
(* C17 *)

CutIsFromCurrentSolves(cut) ==
    \A ni \in Registered :
        /\ cut[ni].coef = chullVal[ni] - rBigmVal[ni]
        /\ cut[ni].xhat = chullVal[ni]

-----------------------------------------------------------------------------
(* C18 *)

-----------------------------------------------------------------------------
(* C19 *)

-----------------------------------------------------------------------------
(* src/pyomo/util/subsystems.py: TemporarySubsystemManager and ParamSweeper *)

\* largest n_scenario of a ParamSweeper
MaxScen == 2

\* the variables and the constraints of the user's model
Vars == {"v1", "v2"}
Cons == {"c1"}

\* the order in which a ComponentMap keyed by the variables is iterated
VarOrder == <<"v1", "v2">>

Kinds == {"TemporarySubsystemManager", "ParamSweeper"}

Range(seq) == {seq[k] : k \in 1 .. Len(seq)}

\* values of the variables before a manager touches them
InitialValues == {0, 1}

\* the values the body of the with-block gives a variable
BodyValues == {7}

\* the arguments the constructors are called with; an argument left out
\* (None) has given = FALSE
FixArgs == {[given |-> FALSE, list |-> <<>>],
            [given |-> TRUE, list |-> <<"v1">>],
            [given |-> TRUE, list |-> <<"v1", "v2">>]}
DeactivateArgs == {[given |-> FALSE, list |-> <<>>],
                   [given |-> TRUE, list |-> <<"c1">>]}
ResetArgs == {[given |-> FALSE, list |-> <<>>],
              [given |-> TRUE, list |-> <<>>],
              [given |-> TRUE, list |-> <<"v2">>]}

\* a list of n values, one per scenario
Ramp(n, base) == [i \in 1 .. n |-> base + i]

\* input_values: every input variable with a list of n_scenario values
InputMaps(n) ==
    {[v \in {"v1"} |-> Ramp(n, 10)],
     [v \in Vars |-> IF v = "v1" THEN Ramp(n, 10) ELSE Ramp(n, 20)]}

\* output_values as passed: None, or a map of one output variable
OutputArgs(n) == {[given |-> FALSE, map |-> <<>>],
                  [given |-> TRUE, map |-> [v \in {"v2"} |-> Ramp(n, 30)]]}

\* lines 66-71: an argument that is None becomes []
ListOrEmpty(arg) == IF arg.given THEN arg.list ELSE <<>>

\* [var for var in input_values]
KeysOf(map) == SelectSeq(VarOrder, LAMBDA v : v \in DOMAIN map)

\* variant of lines 140-143: the input variables are not added to to_reset
SweeperResetListAsGiven(arg, inputs) == IF arg.given THEN arg.list ELSE <<>>

\* lines 140-143: to_reset is the input variables, or the list passed
\* extended by them
SweeperResetList(arg, inputs) ==
    IF ~arg.given THEN KeysOf(inputs) ELSE arg.list \o KeysOf(inputs)

\* line 135
OutputOrEmpty(arg) == IF arg.given THEN arg.map ELSE <<>>

\* lines 83-85: [(comp, comp.<field>) for comp in list]
Snapshot(list, field) == [k \in 1 .. Len(list) |-> <<list[k], field[list[k]]>>]

\* lines 87-88, 90-91: every component of the list gets the flag
SetFlag(flags, list, b) ==
    [c \in DOMAIN flags |-> IF c \in Range(list) THEN b ELSE flags[c]]

RECURSIVE UnfixAllRegardless(_, _)
\* variant of lines 96-98: every variable of the list is unfixed
UnfixAllRegardless(fx, pairs) ==
    IF pairs = <<>> THEN fx
    ELSE UnfixAllRegardless([fx EXCEPT ![Head(pairs)[1]] = FALSE], Tail(pairs))

RECURSIVE UnfixAll(_, _)
\* lines 96-98: var.unfix() for the variables that were not fixed
UnfixAll(fx, pairs) ==
    IF pairs = <<>> THEN fx
    ELSE UnfixAll(IF ~Head(pairs)[2]
                  THEN [fx EXCEPT ![Head(pairs)[1]] = FALSE] ELSE fx,
                  Tail(pairs))

RECURSIVE ActivateAll(_, _)
\* lines 99-101: con.activate() for the constraints that were active
ActivateAll(ac, pairs) ==
    IF pairs = <<>> THEN ac
    ELSE ActivateAll(IF Head(pairs)[2]
                     THEN [ac EXCEPT ![Head(pairs)[1]] = TRUE] ELSE ac,
                     Tail(pairs))

RECURSIVE SetAll(_, _)
\* lines 102-103: comp.set_value(val) in the order of the list
SetAll(val, pairs) ==
    IF pairs = <<>> THEN val
    ELSE SetAll([val EXCEPT ![Head(pairs)[1]] = Head(pairs)[2]], Tail(pairs))

\* variant of line 169: the first entry of the list is taken
ScenarioEntryFirst(values, i) == values[1]

\* line 169, line 174: values[i] (lists are 0-based in the source)
ScenarioEntry(values, i) == values[i + 1]

\* the loop state of _apply_to is not in use
CutIdle ==
    /\ pc = "none"
    /\ integral = <<>>
    /\ objLayout = "indexed"
    /\ bigmBound = TRUE
    /\ chullLayout = "same"
    /\ bigmLayout = "same"
    /\ improving = FALSE
    /\ iteration = 0
    /\ prev_obj = Num(0)
    /\ results = "none"
    /\ rBigm_objVal = Num(0)
    /\ rBigmVal = <<>>
    /\ x_star = <<>>
    /\ obj_expr = <<>>
    /\ chullObj = <<>>
    /\ chullVal = <<>>
    /\ bigmCuts = <<>>
    /\ rBigmCuts = <<>>
    /\ sepStatus = "none"
    /\ objHist = <<>>
    /\ weakSolves = 0
    /\ sepSolves = 0
    /\ mipSolves = 0
    /\ mipModel = <<>>
    /\ error = "none"

\* the state after TemporarySubsystemManager(...) or ParamSweeper(...) has
\* returned, for any flags and values of the components
SubInit ==
    /\ CutIdle
    /\ region = <<>>
    /\ kind \in Kinds
    /\ phase = "constructed"
    /\ fixed \in [Vars -> BOOLEAN]
    /\ active \in [Cons -> BOOLEAN]
    /\ value \in [Vars -> InitialValues]
    /\ \E to_fix \in FixArgs, to_deactivate \in DeactivateArgs,
          to_reset \in ResetArgs :
        /\ _vars_to_fix = ListOrEmpty(to_fix)
        /\ _cons_to_deactivate = ListOrEmpty(to_deactivate)
        /\ IF kind = "ParamSweeper"
           THEN /\ n_scenario \in 0 .. MaxScen
                /\ input_values \in InputMaps(n_scenario)
                /\ \E out \in OutputArgs(n_scenario) :
                       output_values = OutputOrEmpty(out)
                /\ _comps_to_set = SweeperResetList(to_reset, input_values)
           ELSE /\ n_scenario = 0
                /\ input_values = <<>>
                /\ output_values = <<>>
                /\ _comps_to_set = ListOrEmpty(to_reset)
    /\ _var_was_fixed = <<>>
    /\ _con_was_active = <<>>
    /\ _comp_original_value = <<>>
    /\ _ip = -1
    /\ ret = [kind |-> "none", inputs |-> <<>>, outputs |-> <<>>]
    /\ entry = <<>>
    /\ yielded = <<>>
    /\ restarted = FALSE

\* TemporarySubsystemManager.__enter__, lines 79-93
Enter ==
    /\ phase = "constructed"
    /\ _var_was_fixed' = Snapshot(_vars_to_fix, fixed)
    /\ _con_was_active' = Snapshot(_cons_to_deactivate, active)
    /\ _comp_original_value' = Snapshot(_comps_to_set, value)
    /\ fixed' = SetFlag(fixed, _vars_to_fix, TRUE)
    /\ active' = SetFlag(active, _cons_to_deactivate, FALSE)
    /\ entry' = [fixed |-> fixed, active |-> active, value |-> value]
    /\ phase' = "inside"
    /\ UNCHANGED <<kind, value, _vars_to_fix, _cons_to_deactivate,
                   _comps_to_set, n_scenario, input_values, output_values,
                   _ip, ret, yielded, restarted>>
    /\ UNCHANGED <<cutVars, region>>

\* the body of the with-block sets the value of a variable; it leaves the
\* flags alone
BodySetValue ==
    /\ phase = "inside"
    /\ \E v \in Vars, x \in BodyValues :
        /\ value[v] # x
        /\ value' = [value EXCEPT ![v] = x]
    /\ UNCHANGED <<kind, phase, fixed, active, _vars_to_fix,
                   _cons_to_deactivate, _comps_to_set, _var_was_fixed,
                   _con_was_active, _comp_original_value, n_scenario,
                   input_values, output_values, _ip, ret, entry, yielded,
                   restarted>>
    /\ UNCHANGED <<cutVars, region>>

\* ParamSweeper.__next__, lines 154-161 and 166-177: the next scenario
NextScenario ==
    /\ kind = "ParamSweeper"
    /\ phase \in {"constructed", "inside"}
    /\ ~(_ip + 1 >= n_scenario)
    /\ _ip' = _ip + 1
    /\ value' = [v \in DOMAIN value |->
                    IF v \in DOMAIN input_values
                    THEN ScenarioEntry(input_values[v], _ip')
                    ELSE value[v]]
    /\ ret' = [kind |-> "item",
               inputs |-> [v \in DOMAIN input_values |->
                              ScenarioEntry(input_values[v], _ip')],
               outputs |-> [v \in DOMAIN output_values |->
                               ScenarioEntry(output_values[v], _ip')]]
    /\ yielded' = Append(yielded, _ip')
    /\ UNCHANGED <<kind, phase, fixed, active, _vars_to_fix,
                   _cons_to_deactivate, _comps_to_set, _var_was_fixed,
                   _con_was_active, _comp_original_value, n_scenario,
                   input_values, output_values, entry, restarted>>
    /\ UNCHANGED <<cutVars, region>>

\* ParamSweeper.__next__, lines 154-164: past the last scenario
NextStopIteration ==
    /\ kind = "ParamSweeper"
    /\ phase \in {"constructed", "inside"}
    /\ _ip + 1 >= n_scenario
    /\ _ip' = -1
    /\ ret' = [kind |-> "StopIteration", inputs |-> <<>>, outputs |-> <<>>]
    /\ yielded' = <<>>
    /\ restarted' = TRUE
    /\ UNCHANGED <<kind, phase, fixed, active, value, _vars_to_fix,
                   _cons_to_deactivate, _comps_to_set, _var_was_fixed,
                   _con_was_active, _comp_original_value, n_scenario,
                   input_values, output_values, entry>>
    /\ UNCHANGED <<cutVars, region>>

\* TemporarySubsystemManager.__exit__, lines 95-103
Exit ==
    /\ phase = "inside"
    /\ fixed' = UnfixAll(fixed, _var_was_fixed)
    /\ active' = ActivateAll(active, _con_was_active)
    /\ value' = SetAll(value, _comp_original_value)
    /\ phase' = "exited"
    /\ UNCHANGED <<kind, _vars_to_fix, _cons_to_deactivate, _comps_to_set,
                   _var_was_fixed, _con_was_active, _comp_original_value,
                   n_scenario, input_values, output_values, _ip, ret, entry,
                   yielded, restarted>>
    /\ UNCHANGED <<cutVars, region>>

SubNext ==
    \/ Enter
    \/ BodySetValue
    \/ NextScenario
    \/ NextStopIteration
    \/ Exit

SubSpec == SubInit /\ [][SubNext]_vars

-----------------------------------------------------------------------------
(* C14 *)

\* C14: inside the with-block every variable of to_fix is fixed and every
\* constraint of to_deactivate is inactive; after __exit__ every variable of
\* to_fix has the fixed flag, every constraint of to_deactivate the active
\* flag and every component of to_reset the value it had when __enter__ was
\* called (the body changes values only).
C14_ManagerRoundTrip ==
    /\ phase = "inside" =>
          /\ \A v \in Range(_vars_to_fix) : fixed[v]
          /\ \A c \in Range(_cons_to_deactivate) : ~active[c]
    /\ phase = "exited" =>
          /\ \A v \in Range(_vars_to_fix) : fixed[v] = entry.fixed[v]
          /\ \A c \in Range(_cons_to_deactivate) : active[c] = entry.active[c]
          /\ \A v \in Range(_comps_to_set) : value[v] = entry.value[v]

\* a TemporarySubsystemManager has been left; of its two variables one was
\* fixed before and one was not, its constraint was inactive before, and the
\* body gave the other variable a value that stays
C14_Witness ==
    /\ kind = "TemporarySubsystemManager"
    /\ phase = "exited"
    /\ _vars_to_fix = <<"v1", "v2">>
    /\ entry.fixed["v1"] /\ ~entry.fixed["v2"]
    /\ _cons_to_deactivate = <<"c1">> /\ ~entry.active["c1"]
    /\ _comps_to_set = <<"v2">>
    /\ value["v1"] \in BodyValues

-----------------------------------------------------------------------------
(* C15 *)

\* C15: after the with-block of a ParamSweeper has been left, every variable
\* that is a key of input_values has the value it had when the block was
\* entered, however many scenarios were iterated and whether or not to_reset
\* was passed.
C15_SweeperRestoresInputs ==
    (kind = "ParamSweeper" /\ phase = "exited") =>
        \A v \in DOMAIN input_values : value[v] = entry.value[v]

\* left after one of two scenarios, with both variables as inputs
C15_Witness ==
    /\ kind = "ParamSweeper"
    /\ phase = "exited"
    /\ n_scenario = 2
    /\ ret.kind = "item" /\ _ip = 0
    /\ DOMAIN input_values = Vars
    /\ entry.value = [v \in Vars |-> 1]

-----------------------------------------------------------------------------
(* C16 *)

\* the scenarios returned since the sweeper was fresh or raised StopIteration
\* are 0 .. _ip, in order
YieldedInOrder ==
    /\ _ip \in -1 .. n_scenario - 1
    /\ Len(yielded) = _ip + 1
    /\ \A k \in 1 .. Len(yielded) : yielded[k] = k - 1

\* a call of __next__ has returned or raised in this step
NextCalled == _ip' # _ip \/ ret' # ret \/ yielded' # yielded

\* what a call of __next__ does
NextProtocol ==
    IF _ip + 1 < n_scenario
    THEN /\ _ip' = _ip + 1
         /\ ret'.kind = "item"
         /\ DOMAIN ret'.inputs = DOMAIN input_values
         /\ DOMAIN ret'.outputs = DOMAIN output_values
         /\ \A v \in DOMAIN input_values :
                /\ value'[v] = input_values[v][_ip' + 1]
                /\ ret'.inputs[v] = input_values[v][_ip' + 1]
         /\ \A v \in DOMAIN output_values :
                ret'.outputs[v] = output_values[v][_ip' + 1]
    ELSE /\ ret'.kind = "StopIteration"
         /\ Len(yielded) = n_scenario
         /\ _ip' = -1
         /\ value' = value /\ fixed' = fixed /\ active' = active

\* C16: a fresh ParamSweeper returns the scenarios 0 .. n_scenario-1 in order;
\* when scenario i is returned every input variable has just been set to
\* entry i of its list and the maps returned hold the entries i; the call
\* after the last scenario raises StopIteration, changes no variable and
\* resets the index, so that the next iteration starts at scenario 0 again.
C16_SweeperIterationProtocol ==
    /\ []YieldedInOrder
    /\ [][NextCalled => NextProtocol]_vars

\* a second iteration has returned both scenarios
C16_Witness ==
    /\ kind = "ParamSweeper"
    /\ restarted
    /\ n_scenario = 2
    /\ yielded = <<0, 1>>
    /\ ret.kind = "item"
    /\ ret.inputs = [v \in Vars |-> IF v = "v1" THEN 12 ELSE 22]
    /\ value = ret.inputs

-----------------------------------------------------------------------------
(* The cuts of lines 94-115 against the feasible region of an instance whose
   strong relaxation is known exactly.  The instance has two disjuncts, each a
   box in the plane of x[1], x[2]; the strong relaxation is the convex region
   given by the tightest bounds on x[1], x[2], x[1]+x[2] and x[1]-x[2] that
   hold on both boxes.  Coordinates are in units of 1/2: the corners of the
   boxes and the candidates are even, and the closest point of the region to
   an even point has integer coordinates in these units. *)

\* the boxes lie in [0, GridMax] x [0, GridMax] (whole units)
GridMax == 2

X1 == <<XName, "1">>
X2 == <<XName, "2">>

Box(l1, h1, l2, h2) == [lo1 |-> l1, hi1 |-> h1, lo2 |-> l2, hi2 |-> h2]

\* a box at the lower left corner and a square at the upper right corner
DisjunctPairs ==
    {<<Box(0, 2 * a, 0, 2 * b), Box(2 * c, 2 * GridMax, 2 * c, 2 * GridMax)>> :
        a \in 0 .. GridMax, b \in 0 .. GridMax, c \in 0 .. GridMax}

SetMax(S) == CHOOSE x \in S : \A y \in S : y <= x
SetMin(S) == CHOOSE x \in S : \A y \in S : x <= y

\* the corners of the two boxes
Corners(ds) ==
    UNION {{Point(x, y) : x \in {ds[k].lo1, ds[k].hi1},
                          y \in {ds[k].lo2, ds[k].hi2}} : k \in 1 .. 2}

\* the point lies in the box
InDisjunct(box, p) ==
    /\ box.lo1 <= p[X1] /\ p[X1] <= box.hi1
    /\ box.lo2 <= p[X2] /\ p[X2] <= box.hi2

\* the feasible region of the MIP model instance_bigm: one of the disjuncts
\* holds
Feasible(ds, p) == InDisjunct(ds[1], p) \/ InDisjunct(ds[2], p)

\* the strong relaxation: the feasible region of instance_rChull
InHull(ds, p) ==
    LET cs == Corners(ds)
    IN  /\ SetMin({c[X1] : c \in cs}) <= p[X1]
        /\ p[X1] <= SetMax({c[X1] : c \in cs})
        /\ SetMin({c[X2] : c \in cs}) <= p[X2]
        /\ p[X2] <= SetMax({c[X2] : c \in cs})
        /\ SetMin({c[X1] + c[X2] : c \in cs}) <= p[X1] + p[X2]
        /\ p[X1] + p[X2] <= SetMax({c[X1] + c[X2] : c \in cs})
        /\ SetMin({c[X1] - c[X2] : c \in cs}) <= p[X1] - p[X2]
        /\ p[X1] - p[X2] <= SetMax({c[X1] - c[X2] : c \in cs})

\* the points of the plane that are sampled
SamplePoints == {Point(x, y) : x \in 0 .. 2 * GridMax, y \in 0 .. 2 * GridMax}

HullPoints(ds) == {p \in SamplePoints : InHull(ds, p)}

FeasiblePoints(ds) == {p \in SamplePoints : Feasible(ds, p)}

\* the objective of the instance, minimised: cost[1]*x[1] + cost[2]*x[2]
Costs == {<<-1, 0>>, <<0, -1>>, <<-1, 1>>, <<1, 1>>}

\* the instance with the disjuncts ds and the objective cost
Instance(ds, c) ==
    [disjuncts |-> ds, hull |-> HullPoints(ds), feasible |-> FeasiblePoints(ds),
     cost |-> c]

\* the points the weak relaxation can return: the whole points of the box
\* that the bigM constraints leave, which reaches one unit beyond the boxes
Candidates ==
    {Assign(2 * x, 2 * y, 0) : x \in -1 .. GridMax + 1, y \in -1 .. GridMax + 1}

\* the objective at a point, in units of 0.0001 (a coordinate unit is 0.5)
ObjAt(c, p) == 5000 * (c[1] * p[X1] + c[2] * p[X2])

\* the points of the weak relaxation with the cuts added so far
WeakFeasible(cuts) ==
    {p \in Candidates : \A n \in DOMAIN cuts : CutLhs(cuts[n], p) >= 0}

\* line 61: the optimal solutions of the weak relaxation
WeakOptima(c, cuts) ==
    LET F == WeakFeasible(cuts)
    IN  {p \in F : \A q \in F : ObjAt(c, p) <= ObjAt(c, q)}

\* the objective of line 83 at a point of instance_rChull
Dist2(p, xs) ==
    SumOver([ni \in CutVarIdx |->
                (p[ni] - xs[XStarKey(ni[1], ni[2])]) * (p[ni] - xs[XStarKey(ni[1], ni[2])])],
            CutVarIdx)

\* variant of line 92: the solver returns the point farthest from x_star
Farthest(hull, xs) ==
    CHOOSE h \in hull : \A g \in hull : Dist2(g, xs) <= Dist2(h, xs)

\* line 92: the separation problem solved to optimality, the point of the
\* strong relaxation closest to x_star
Closest(hull, xs) ==
    CHOOSE h \in hull : \A g \in hull : Dist2(h, xs) <= Dist2(g, xs)

\* the state after lines 28-49 for one of the instances
ValInit ==
    /\ pc = "solve_weak"
    /\ integral = [instance_bigm |-> TRUE, instance_rBigm |-> FALSE,
                   instance_rChull |-> FALSE]
    /\ objLayout = "indexed"
    /\ bigmBound = TRUE
    /\ chullLayout = "same"
    /\ bigmLayout = "same"
    /\ improving = TRUE
    /\ iteration = 0
    /\ prev_obj = PosInf
    /\ results = "none"
    /\ rBigm_objVal = Num(0)
    /\ rBigmVal = <<>>
    /\ x_star = <<>>
    /\ obj_expr = <<>>
    /\ chullObj = <<>>
    /\ chullVal = <<>>
    /\ bigmCuts = <<>>
    /\ rBigmCuts = <<>>
    /\ sepStatus = "none"
    /\ objHist = <<>>
    /\ weakSolves = 0
    /\ sepSolves = 0
    /\ mipSolves = 0
    /\ mipModel = <<>>
    /\ error = "none"
    /\ SubsystemsIdle
    /\ \E ds \in DisjunctPairs, c \in Costs : region = Instance(ds, c)

\* lines 61-83: the weak relaxation, with the cuts added so far, is solved
ValSolveWeak ==
    /\ pc = "solve_weak"
    /\ \E sol \in WeakOptima(region.cost, rBigmCuts) :
        /\ rBigmVal' = sol
        /\ rBigm_objVal' = Num(ObjAt(region.cost, sol))
        /\ objHist' = Append(objHist, ObjAt(region.cost, sol))
        /\ x_star' = BuildXStar(sol)
        /\ obj_expr' = BuildObjExpr(sol)
    /\ results' = "optimal"
    /\ weakSolves' = weakSolves + 1
    /\ pc' = "separation"
    /\ UNCHANGED <<integral, objLayout, bigmBound, chullLayout, bigmLayout,
                   improving, iteration, prev_obj, chullObj, chullVal,
                   bigmCuts, rBigmCuts, sepStatus, sepSolves, mipSolves,
                   mipModel, error>>
    /\ UNCHANGED <<subVars, region>>

\* lines 86-92: the separation problem is solved
ValSolveSeparation ==
    /\ pc = "separation"
    /\ chullVal' = Closest(region.hull, x_star)
    /\ sepStatus' = "optimal"
    /\ sepSolves' = sepSolves + 1
    /\ pc' = "add_cut"
    /\ UNCHANGED <<integral, objLayout, bigmBound, chullLayout, bigmLayout,
                   improving, iteration, prev_obj, results, rBigm_objVal,
                   rBigmVal, x_star, obj_expr, chullObj, bigmCuts, rBigmCuts,
                   objHist, weakSolves, mipSolves, mipModel, error>>
    /\ UNCHANGED <<subVars, region>>

\* lines 94-115: the cut is added to both instances
ValAddCut ==
    /\ pc = "add_cut"
    /\ bigmCuts' = AddComponent(bigmCuts, CutName(iteration),
                                CutExprBigm(x_star, chullVal))
    /\ rBigmCuts' = AddComponent(rBigmCuts, CutName(iteration),
                                 CutExprRBigm(x_star, chullVal))
    /\ pc' = "check"
    /\ UNCHANGED <<integral, objLayout, bigmBound, chullLayout, bigmLayout,
                   improving, iteration, prev_obj, results, rBigm_objVal,
                   rBigmVal, x_star, obj_expr, chullObj, chullVal, sepStatus,
                   objHist, weakSolves, sepSolves, mipSolves, mipModel, error>>
    /\ UNCHANGED <<subVars, region>>

\* lines 118-124 and 59: the loop goes on while the objective improves
ValCheckConvergence ==
    /\ pc = "check"
    /\ improving' = Improving(prev_obj, rBigm_objVal)
    /\ prev_obj' = rBigm_objVal
    /\ iteration' = iteration + 1
    /\ pc' = LoopTest(improving')
    /\ UNCHANGED <<integral, objLayout, bigmBound, chullLayout, bigmLayout,
                   results, rBigm_objVal, rBigmVal, x_star, obj_expr, chullObj,
                   chullVal, bigmCuts, rBigmCuts, sepStatus, objHist,
                   weakSolves, sepSolves, mipSolves, mipModel, error>>
    /\ UNCHANGED <<subVars, region>>

ValNext ==
    \/ ValSolveWeak
    \/ ValSolveSeparation
    \/ ValAddCut
    \/ ValCheckConvergence

ValSpec == ValInit /\ [][ValNext]_vars

-----------------------------------------------------------------------------
(* C11 *)

\* the hypotheses of C11: the projection lies in the strong relaxation and no
\* point of it is closer to the candidate, and the strong relaxation contains
\* the feasible region
ProjectionHypotheses ==
    /\ region.feasible \subseteq region.hull
    /\ pc = "add_cut" =>
          /\ InHull(region.disjuncts, chullVal)
          /\ \A g \in region.hull : Dist2(chullVal, x_star) <= Dist2(g, x_star)

====
